---- MODULE Spec2Model ----
(***************************************************************************)
(* Model of Ubuntu_Requests.py: the per-URL acquisition pipeline           *)
(* (download_single_image) with its validator, content deduplicator and    *)
(* filename resolver, and the batch driver of main().                      *)
(*                                                                         *)
(* Strings are sequences of one-character strings, so that the string      *)
(* operations of the code (split, strip, filtering, splitext, int) are     *)
(* computed character by character.  Byte contents are sequences of bytes. *)
(* None is Python's None.                                                  *)
(***************************************************************************)
EXTENDS Integers, Sequences, FiniteSets, TLC

\* Python's None: a sequence whose only element is not a character, so it
\* differs from every string
None == <<"None">>

(***************************************************************************)
(* Bounds of the model.                                                    *)
(***************************************************************************)
MaxContentLen == 2      \* longest byte content that is fetched or stored
DigestSpace == 2        \* number of digest values (MD5 has 2^128)
MaxUrls == 2            \* longest list of URLs given to main()

(***************************************************************************)
(* Python string primitives.                                               *)
(***************************************************************************)
Min(a, b) == IF a < b THEN a ELSE b

\* s[i:] with a 1-based i
Drop(s, i) == SubSeq(s, i, Len(s))

\* s[:i-1] with a 1-based i
Take(s, i) == SubSeq(s, 1, i - 1)

\* c in s
Contains(s, c) == \E i \in 1..Len(s) : s[i] = c

\* s.startswith(p)
StartsWith(s, p) == Len(s) >= Len(p) /\ SubSeq(s, 1, Len(p)) = p

\* s.find(p) for i >= from, 1-based; 0 when there is none
FindFrom(s, p, from) ==
    LET hits == {i \in from..(Len(s) - Len(p) + 1) : SubSeq(s, i, i + Len(p) - 1) = p}
    IN  IF hits = {} THEN 0 ELSE CHOOSE i \in hits : \A j \in hits : i <= j

\* p in s
HasSub(s, p) == FindFrom(s, p, 1) # 0

\* s.rfind(c), 1-based; 0 when there is none
RFind(s, c) ==
    LET hits == {i \in 1..Len(s) : s[i] = c}
    IN  IF hits = {} THEN 0 ELSE CHOOSE i \in hits : \A j \in hits : i >= j

\* s.split(p)[0]
SplitFirst(s, p) ==
    LET i == FindFrom(s, p, 1) IN IF i = 0 THEN s ELSE Take(s, i)

\* s.split(p)[1], used only where p in s
SplitSecond(s, p) ==
    LET i == FindFrom(s, p, 1)
        rest == Drop(s, i + Len(p))
    IN  SplitFirst(rest, p)

\* s.strip(chars)
RECURSIVE LStrip(_, _)
LStrip(s, chars) ==
    IF s # <<>> /\ s[1] \in chars THEN LStrip(Tail(s), chars) ELSE s

RECURSIVE RStrip(_, _)
RStrip(s, chars) ==
    IF s # <<>> /\ s[Len(s)] \in chars THEN RStrip(Take(s, Len(s)), chars) ELSE s

Strip(s, chars) == RStrip(LStrip(s, chars), chars)

Whitespace == {" "}

DigitChars == <<"0", "1", "2", "3", "4", "5", "6", "7", "8", "9">>

DigitValue(c) == (CHOOSE i \in 1..10 : DigitChars[i] = c) - 1

IsDigit(c) == \E i \in 1..10 : DigitChars[i] = c

\* str(n) for n >= 0
RECURSIVE IntToStr(_)
IntToStr(n) ==
    IF n < 10 THEN <<DigitChars[n + 1]>>
    ELSE IntToStr(n \div 10) \o <<DigitChars[(n % 10) + 1]>>

RECURSIVE DigitsToInt(_, _)
DigitsToInt(s, acc) ==
    IF s = <<>> THEN acc ELSE DigitsToInt(Tail(s), acc * 10 + DigitValue(s[1]))

\* int(s): surrounding whitespace and one sign are accepted; anything that is
\* not a run of digits raises ValueError (ok = FALSE)
PyInt(s) ==
    LET t == Strip(s, Whitespace)
        neg == t # <<>> /\ t[1] = "-"
        u == IF t # <<>> /\ t[1] \in {"-", "+"} THEN Tail(t) ELSE t
    IN  IF u = <<>> \/ \E i \in 1..Len(u) : ~IsDigit(u[i])
        THEN [ok |-> FALSE, value |-> 0]
        ELSE [ok |-> TRUE,
              value |-> IF neg THEN 0 - DigitsToInt(u, 0) ELSE DigitsToInt(u, 0)]

\* dict.get(key, default)
Get(d, key, default) == IF key \in DOMAIN d THEN d[key] ELSE default

(***************************************************************************)
(* String literals of the code.                                            *)
(***************************************************************************)
S_image_slash == <<"i", "m", "a", "g", "e", "/">>
S_image_jpeg == <<"i", "m", "a", "g", "e", "/", "j", "p", "e", "g">>
S_image_png == <<"i", "m", "a", "g", "e", "/", "p", "n", "g">>
S_image_gif == <<"i", "m", "a", "g", "e", "/", "g", "i", "f">>
S_text_html == <<"t", "e", "x", "t", "/", "h", "t", "m", "l">>
S_text_plain == <<"t", "e", "x", "t", "/", "p", "l", "a", "i", "n">>
S_filename_eq == <<"f", "i", "l", "e", "n", "a", "m", "e", "=">>
S_downloaded_image ==
    <<"d", "o", "w", "n", "l", "o", "a", "d", "e", "d", "_", "i", "m", "a", "g", "e">>
S_jpg == <<".", "j", "p", "g">>
S_png == <<".", "p", "n", "g">>
S_gif == <<".", "g", "i", "f">>
S_html == <<".", "h", "t", "m", "l">>
S_txt == <<".", "t", "x", "t">>
Directory ==
    <<"F", "e", "t", "c", "h", "e", "d", "_", "I", "m", "a", "g", "e", "s">>

LowerSeq ==
    <<"a", "b", "c", "d", "e", "f", "g", "h", "i", "j", "k", "l", "m",
      "n", "o", "p", "q", "r", "s", "t", "u", "v", "w", "x", "y", "z">>
UpperSeq ==
    <<"A", "B", "C", "D", "E", "F", "G", "H", "I", "J", "K", "L", "M",
      "N", "O", "P", "Q", "R", "S", "T", "U", "V", "W", "X", "Y", "Z">>
LowerLetters == {LowerSeq[k] : k \in 1..26}
UpperLetters == {UpperSeq[k] : k \in 1..26}
safe_chars ==
    {" ", "-", "_", ".", "(", ")", "[", "]", "{", "}"}
        \cup LowerLetters \cup UpperLetters \cup {DigitChars[i] : i \in 1..10}

(***************************************************************************)
(* Library functions the code calls.                                       *)
(***************************************************************************)
\* urlparse(url).path: what follows the scheme and the network location, up to
\* the first "?" or "#"
urlparse_path(url) ==
    LET c == FindFrom(url, <<":">>, 1)
        r == IF c = 0 THEN url ELSE Drop(url, c + 1)
        ends == {i \in 3..Len(r) : r[i] \in {"/", "?", "#"}}
        n == IF ends = {} THEN Len(r) + 1 ELSE CHOOSE i \in ends : \A j \in ends : i <= j
        rest == IF StartsWith(r, <<"/", "/">>) THEN Drop(r, n) ELSE r
    IN  SplitFirst(SplitFirst(rest, <<"#">>), <<"?">>)

\* os.path.basename(p)
basename(p) == Drop(p, RFind(p, "/") + 1)

\* os.path.join(a, b)
os_path_join(a, b) ==
    IF b # <<>> /\ b[1] = "/" THEN b
    ELSE IF a = <<>> \/ a[Len(a)] = "/" THEN a \o b
    ELSE a \o <<"/">> \o b

\* os.path.splitext(p): the extension starts at the last dot of the last
\* component, unless only dots precede it in that component
splitext(p) ==
    LET sepIndex == RFind(p, "/")
        dotIndex == RFind(p, ".")
        lead == {i \in (sepIndex + 1)..(dotIndex - 1) : p[i] # "."}
    IN  IF dotIndex > sepIndex /\ lead # {}
        THEN <<Take(p, dotIndex), Drop(p, dotIndex)>>
        ELSE <<p, <<>>>>

\* mimetypes.guess_extension(type): None when the type is not in the table
guess_extension(type) ==
    IF type = S_image_jpeg THEN S_jpg
    ELSE IF type = S_image_png THEN S_png
    ELSE IF type = S_image_gif THEN S_gif
    ELSE IF type = S_text_html THEN S_html
    ELSE IF type = S_text_plain THEN S_txt
    ELSE None

\* hashlib.md5: a digest of fixed width, folded over the bytes fed to it
RECURSIVE md5_update(_, _)
md5_update(h, data) ==
    IF data = <<>> THEN h
    ELSE md5_update((h * 3 + DigitValue(data[1]) + 1) % DigestSpace, Tail(data))

hexdigest(h) == IntToStr(h)

md5(data) == hexdigest(md5_update(0, data))

(***************************************************************************)
(* The target directory: a function from entry names to entries.  An entry *)
(* is a regular file (readable or not) with its bytes, or a subdirectory.  *)
(***************************************************************************)
File(content, readable) == [kind |-> "file", readable |-> readable, content |-> content]
SubDir == [kind |-> "dir", readable |-> TRUE, content |-> <<>>]

\* the entry name a path of the target directory denotes
EntryOf(filepath) == Drop(filepath, Len(Directory) + 2)

\* os.path.exists(filepath)
path_exists(fs, filepath) ==
    EntryOf(filepath) \in DOMAIN fs \cup {<<>>, <<".">>, <<".", ".">>}

\* os.path.isfile(filepath)
path_isfile(fs, filepath) ==
    EntryOf(filepath) \in DOMAIN fs /\ fs[EntryOf(filepath)].kind = "file"

(***************************************************************************)
(* The functions of Ubuntu_Requests.py.                                    *)
(***************************************************************************)
ChunkSize == 4096

\* for chunk in iter(lambda: f.read(4096), b""): hash_md5.update(chunk)
RECURSIVE hash_chunks(_, _)
hash_chunks(h, data) ==
    IF data = <<>> THEN h
    ELSE hash_chunks(md5_update(h, Take(data, Min(ChunkSize, Len(data)) + 1)),
                     Drop(data, Min(ChunkSize, Len(data)) + 1))

\* calculate_file_hash with the digest of no bytes returned on IOError
calculate_file_hash_of_nothing(fs, filepath) ==
    IF ~path_isfile(fs, filepath) THEN None
    ELSE IF ~fs[EntryOf(filepath)].readable THEN hexdigest(0)
    ELSE hexdigest(hash_chunks(0, fs[EntryOf(filepath)].content))

\* calculate_file_hash(filepath): None when the file cannot be opened or read
calculate_file_hash(fs, filepath) ==
    IF ~path_isfile(fs, filepath) \/ ~fs[EntryOf(filepath)].readable THEN None
    ELSE hexdigest(hash_chunks(0, fs[EntryOf(filepath)].content))

\* the loop of is_duplicate_image returning False at the first regular file
\* that does not match
RECURSIVE scan_listing_first_file(_, _, _, _)
scan_listing_first_file(new_hash, fs, listing, examined) ==
    IF listing = <<>> THEN [dup |-> FALSE, name |-> None, examined |-> examined]
    ELSE LET filename == Head(listing)
             filepath == os_path_join(Directory, filename)
         IN  IF path_isfile(fs, filepath)
             THEN IF calculate_file_hash(fs, filepath) = new_hash
                  THEN [dup |-> TRUE, name |-> filename, examined |-> examined + 1]
                  ELSE [dup |-> FALSE, name |-> None, examined |-> examined + 1]
             ELSE scan_listing_first_file(new_hash, fs, Tail(listing), examined + 1)

\* the loop of is_duplicate_image ended by the first entry that is not a
\* regular file or cannot be read
RECURSIVE scan_listing_aborts(_, _, _, _)
scan_listing_aborts(new_hash, fs, listing, examined) ==
    IF listing = <<>> THEN [dup |-> FALSE, name |-> None, examined |-> examined]
    ELSE LET filename == Head(listing)
             filepath == os_path_join(Directory, filename)
         IN  IF ~path_isfile(fs, filepath) \/ calculate_file_hash(fs, filepath) = None
             THEN [dup |-> FALSE, name |-> None, examined |-> examined + 1]
             ELSE IF calculate_file_hash(fs, filepath) = new_hash
             THEN [dup |-> TRUE, name |-> filename, examined |-> examined + 1]
             ELSE scan_listing_aborts(new_hash, fs, Tail(listing), examined + 1)

\* the loop of is_duplicate_image over what is left of os.listdir(directory);
\* examined counts the entries the loop has taken
RECURSIVE scan_listing(_, _, _, _)
scan_listing(new_hash, fs, listing, examined) ==
    IF listing = <<>> THEN [dup |-> FALSE, name |-> None, examined |-> examined]
    ELSE LET filename == Head(listing)
             filepath == os_path_join(Directory, filename)
         IN  IF path_isfile(fs, filepath)
                  /\ calculate_file_hash(fs, filepath) = new_hash
             THEN [dup |-> TRUE, name |-> filename, examined |-> examined + 1]
             ELSE scan_listing(new_hash, fs, Tail(listing), examined + 1)

\* is_duplicate_image that finds nothing: (False, None) whatever the directory
is_duplicate_image_blind(content, fs, listing) ==
    [dup |-> FALSE, name |-> None, examined |-> Len(listing)]

\* is_duplicate_image(content, directory), listing being os.listdir(directory)
is_duplicate_image(content, fs, listing) ==
    scan_listing(md5(content), fs, listing, 0)

SizeLimit == 10 * 1024 * 1024

image_extensions ==
    {S_jpg, <<".", "j", "p", "e", "g">>, S_png, S_gif, <<".", "b", "m", "p">>,
     <<".", "w", "e", "b", "p">>, <<".", "t", "i", "f", "f">>}

\* c.lower()
Lower(c) ==
    IF c \in UpperLetters
    THEN LowerSeq[CHOOSE k \in 1..26 : UpperSeq[k] = c]
    ELSE c

\* s.endswith(p)
EndsWith(s, p) == Len(s) >= Len(p) /\ SubSeq(s, Len(s) - Len(p) + 1, Len(s)) = p

\* is_safe_to_download with the size test written >= instead of >
is_safe_to_download_at_limit(url, response) ==
    LET content_type == Get(response.headers, "content-type", <<>>)
        content_length == Get(response.headers, "content-length", None)
    IN  IF ~StartsWith(content_type, S_image_slash)
        THEN [raised |-> FALSE, safe |-> FALSE, warned |-> FALSE,
              message |-> "Content type is not an image"]
        ELSE IF content_length # None /\ content_length # <<>>
                  /\ ~PyInt(content_length).ok
        THEN [raised |-> TRUE, safe |-> FALSE, warned |-> FALSE,
              message |-> "ValueError"]
        ELSE IF content_length # None /\ content_length # <<>>
                  /\ PyInt(content_length).value >= SizeLimit
        THEN [raised |-> FALSE, safe |-> FALSE, warned |-> FALSE,
              message |-> "File size exceeds safety limit (10MB)"]
        ELSE [raised |-> FALSE, safe |-> TRUE, warned |-> FALSE,
              message |-> "Safe to download"]

\* is_safe_to_download(url, response): raised when int() raises ValueError;
\* warned when the extension warning is printed
is_safe_to_download(url, response) ==
    LET content_type == Get(response.headers, "content-type", <<>>)
        content_length == Get(response.headers, "content-length", None)
        path == [i \in 1..Len(urlparse_path(url)) |-> Lower(urlparse_path(url)[i])]
        warned == ~\E ext \in image_extensions : EndsWith(path, ext)
    IN  IF ~StartsWith(content_type, S_image_slash)
        THEN [raised |-> FALSE, safe |-> FALSE, warned |-> FALSE,
              message |-> "Content type is not an image"]
        ELSE IF content_length # None /\ content_length # <<>>
                  /\ ~PyInt(content_length).ok
        THEN [raised |-> TRUE, safe |-> FALSE, warned |-> FALSE,
              message |-> "ValueError"]
        ELSE IF content_length # None /\ content_length # <<>>
                  /\ PyInt(content_length).value > SizeLimit
        THEN [raised |-> FALSE, safe |-> FALSE, warned |-> FALSE,
              message |-> "File size exceeds safety limit (10MB)"]
        ELSE [raised |-> FALSE, safe |-> TRUE, warned |-> warned,
              message |-> "Safe to download"]

\* mimetypes.guess_extension(content_type.split(';')[0]) or '.jpg'
ext_of(response) ==
    LET content_type == Get(response.headers, "content-type", S_image_jpeg)
        guess == guess_extension(SplitFirst(content_type, <<";">>))
    IN  IF guess = None THEN S_jpg ELSE guess

HasNoName(filename) == filename = <<>> \/ ~Contains(filename, ".")

\* the name taken from content-disposition whenever the header gives one,
\* the URL's last path segment being used only without it
name_from_headers_first(url, response) ==
    LET filename == basename(urlparse_path(url))
        content_disp == Get(response.headers, "content-disposition", <<>>)
    IN  IF HasSub(content_disp, S_filename_eq)
        THEN Strip(SplitSecond(content_disp, S_filename_eq), {"\"", "'"})
        ELSE filename

\* lines 63-70: the URL's last path segment, else the content-disposition name
name_from_headers(url, response) ==
    LET filename == basename(urlparse_path(url))
        content_disp == Get(response.headers, "content-disposition", <<>>)
    IN  IF HasNoName(filename) /\ HasSub(content_disp, S_filename_eq)
        THEN Strip(SplitSecond(content_disp, S_filename_eq), {"\"", "'"})
        ELSE filename

\* lines 72-76: the synthesized name
name_derived(url, response) ==
    IF HasNoName(name_from_headers(url, response))
    THEN S_downloaded_image \o ext_of(response)
    ELSE name_from_headers(url, response)

\* the cleaning without the filter of line 81: only the cuts at "?" and "#"
name_cleaned_unfiltered(filename) ==
    Strip(SplitFirst(SplitFirst(filename, <<"?">>), <<"#">>), Whitespace)

\* lines 78-81: the cleaning
name_cleaned(filename) ==
    Strip(SelectSeq(SplitFirst(SplitFirst(filename, <<"?">>), <<"#">>),
                    LAMBDA c : c \in safe_chars),
          Whitespace)

\* get_filename_from_url(url, response)
get_filename_from_url(url, response) ==
    LET filename == name_cleaned(name_derived(url, response))
    IN  IF ~Contains(filename, ".") THEN filename \o ext_of(response) ELSE filename

(***************************************************************************)
(* Inputs: the URLs given to main(), what the servers answer, and the      *)
(* directories the program may find when it starts.                        *)
(***************************************************************************)
Str_scheme == <<"h", "t", "t", "p", ":", "/", "/">>
Str_image_jpg == <<"i", "m", "a", "g", "e", ".", "j", "p", "g">>
Str_image_1_jpg == <<"i", "m", "a", "g", "e", "_", "1", ".", "j", "p", "g">>

Url_image_a == Str_scheme \o <<"a", "/">> \o Str_image_jpg
Url_image_b == Str_scheme \o <<"b", "/">> \o Str_image_jpg
Url_hidden == Str_scheme \o <<"x", "/", "%">> \o S_jpg \o <<"?", "v", "=", "1">>
Url_bare == Str_scheme \o <<"x", "/", "d", "l">>

Urls == {Url_image_a, Url_image_b, Url_hidden, Url_bare}

\* bytes are written as characters, which lets None stand for a missing content
Bytes == {"0"}

RECURSIVE SeqsUpTo(_, _)
SeqsUpTo(S, n) ==
    IF n = 0 THEN {<<>>}
    ELSE SeqsUpTo(S, n - 1)
            \cup {Append(q, x) : q \in {r \in SeqsUpTo(S, n - 1) : Len(r) = n - 1}, x \in S}

Contents == SeqsUpTo(Bytes, MaxContentLen)

NoHeaders == [k \in {} |-> <<>>]

Header(k, values) == {NoHeaders} \cup {k :> v : v \in values}

Str_20MiB == <<"2", "0", "9", "7", "1", "5", "2", "0">>

Disp_gif ==
    <<"a", "t", "t", "a", "c", "h", "m", "e", "n", "t", ";", " ">> \o S_filename_eq
        \o <<"\"", "c", "a", "t">> \o S_gif \o <<"\"">>

\* the headers a server may send to the pipeline
PipelineHeaders ==
    {t @@ l @@ d :
        t \in Header("content-type", {S_image_png, S_image_jpeg, S_text_plain}),
        l \in Header("content-length", {Str_20MiB, <<"x">>}),
        d \in Header("content-disposition", {Disp_gif})}

\* the directories main() may find
InitialDirs ==
    {NoHeaders,
     Str_image_jpg :> File(<<"0">>, TRUE),
     (Str_image_jpg :> File(<<"0">>, FALSE)) @@ (Str_image_1_jpg :> SubDir)
        @@ (S_jpg :> File(<<"0", "0">>, TRUE))}

(***************************************************************************)
(* State.                                                                  *)
(***************************************************************************)
Procs == {1, 2}     \* invocations of download_single_image that may be live
Main == 1           \* the one main() runs

VARIABLES
    fs,                     \* the target directory
    urls,                   \* main: the list of URLs
    i,                      \* main: number of URLs handled so far
    successful_downloads,   \* main: the counter
    pc,                     \* per invocation: where it is
    url,                    \* per invocation: its argument
    response,               \* per invocation: the response of requests.get
    is_safe,                \* per invocation: the verdict of is_safe_to_download
    is_dup,                 \* per invocation: the answer of is_duplicate_image
    scanned,                \* per invocation: entries the duplicate scan took
    content,                \* per invocation: response.content
    existing_filename,      \* per invocation: the name is_duplicate_image gave
    original_filepath,      \* per invocation
    filepath,               \* per invocation
    counter,                \* per invocation
    returned,               \* per invocation: the value returned
    outcome,                \* per invocation: which message it printed last
    fs0                     \* per invocation: the directory when it was called

vars ==
    <<fs, urls, i, successful_downloads, pc, url, response, is_safe, is_dup,
      scanned, content, existing_filename, original_filepath, filepath, counter, returned, outcome, fs0>>

locals ==
    <<url, response, is_safe, is_dup, scanned, content, existing_filename,
      original_filepath, filepath, counter, returned, outcome, fs0>>

driver == <<urls, i, successful_downloads>>

NoResponse == [headers |-> NoHeaders]

IdleLocals ==
    /\ pc = [p \in Procs |-> "idle"]
    /\ url = [p \in Procs |-> None]
    /\ response = [p \in Procs |-> NoResponse]
    /\ is_safe = [p \in Procs |-> FALSE]
    /\ is_dup = [p \in Procs |-> FALSE]
    /\ scanned = [p \in Procs |-> 0]
    /\ content = [p \in Procs |-> None]
    /\ existing_filename = [p \in Procs |-> None]
    /\ original_filepath = [p \in Procs |-> None]
    /\ filepath = [p \in Procs |-> None]
    /\ counter = [p \in Procs |-> 0]
    /\ returned = [p \in Procs |-> FALSE]
    /\ outcome = [p \in Procs |-> "none"]
    /\ fs0 = [p \in Procs |-> NoHeaders]

Init ==
    /\ fs \in InitialDirs
    /\ urls \in SeqsUpTo(Urls, MaxUrls)
    /\ i = 0
    /\ successful_downloads = 0
    /\ IdleLocals

(***************************************************************************)
(* download_single_image(url, directory), one step at a time.              *)
(***************************************************************************)
\* return v, after printing the message named by why
Return(p, v, why) ==
    /\ pc' = [pc EXCEPT ![p] = "returned"]
    /\ returned' = [returned EXCEPT ![p] = v]
    /\ outcome' = [outcome EXCEPT ![p] = why]

\* line 91: the call
Call(p, u) ==
    /\ pc[p] = "idle"
    /\ pc' = [pc EXCEPT ![p] = "head"]
    /\ url' = [url EXCEPT ![p] = u]
    /\ fs0' = [fs0 EXCEPT ![p] = fs]
    /\ response' = [response EXCEPT ![p] = NoResponse]
    /\ is_safe' = [is_safe EXCEPT ![p] = FALSE]
    /\ is_dup' = [is_dup EXCEPT ![p] = FALSE]
    /\ scanned' = [scanned EXCEPT ![p] = 0]
    /\ content' = [content EXCEPT ![p] = None]
    /\ existing_filename' = [existing_filename EXCEPT ![p] = None]
    /\ original_filepath' = [original_filepath EXCEPT ![p] = None]
    /\ filepath' = [filepath EXCEPT ![p] = None]
    /\ counter' = [counter EXCEPT ![p] = 0]
    /\ returned' = [returned EXCEPT ![p] = FALSE]
    /\ outcome' = [outcome EXCEPT ![p] = "none"]
    /\ UNCHANGED fs

\* what may become of the HEAD request: a response with a success status,
\* no connection, no answer within the timeout, a response with an error
\* status
HeadOutcomes == {"ok", "transport", "timeout", "status"}

\* the HEAD request with a failure not caught: the call ends in the handler
\* of RequestException
HeadResult_fatal(p, head) ==
    /\ pc[p] = "head"
    /\ IF head = "ok"
       THEN /\ pc' = [pc EXCEPT ![p] = "get"]
            /\ UNCHANGED <<returned, outcome>>
       ELSE Return(p, FALSE, "connection_error")
    /\ UNCHANGED <<fs, driver, url, is_safe, is_dup, scanned, response,
                   content, existing_filename, original_filepath, filepath,
                   counter, fs0>>

\* lines 97-102: the HEAD request ending as head says; head_response is not
\* read again, and the RequestException of a failure is passed over
HeadResult(p, head) ==
    /\ pc[p] = "head"
    /\ pc' = [pc EXCEPT ![p] = "get"]
    /\ UNCHANGED <<fs, driver, locals>>

\* lines 97-102: the HEAD request
HeadProbe(p) == \E head \in HeadOutcomes : HeadResult(p, head)

\* lines 105-106: the GET request of the headers (stream=True); a transport
\* failure or an error status raises RequestException
GetFails(p) ==
    /\ pc[p] = "get"
    /\ Return(p, FALSE, "connection_error")
    /\ UNCHANGED <<fs, driver, url, is_safe, is_dup, scanned, response,
                   content, existing_filename, original_filepath, filepath,
                   counter, fs0>>

GetOk(p) ==
    /\ pc[p] = "get"
    /\ \E h \in PipelineHeaders : response' = [response EXCEPT ![p] = [headers |-> h]]
    /\ pc' = [pc EXCEPT ![p] = "check"]
    /\ UNCHANGED <<fs, driver, url, is_safe, is_dup, scanned, content,
                   existing_filename, original_filepath, filepath, counter,
                   returned, outcome, fs0>>

\* the safety check with a failed verdict only printed: the call goes on
Check_warns(p) ==
    /\ pc[p] = "check"
    /\ LET v == is_safe_to_download(url[p], response[p])
       IN  /\ is_safe' = [is_safe EXCEPT ![p] = ~v.raised /\ v.safe]
           /\ IF v.raised THEN Return(p, FALSE, "error")
              ELSE /\ pc' = [pc EXCEPT ![p] = "content"]
                   /\ UNCHANGED <<returned, outcome>>
    /\ UNCHANGED <<fs, driver, url, is_dup, scanned, response, content,
                   existing_filename, original_filepath, filepath, counter,
                   fs0>>

\* lines 109-112: the safety check
Check(p) ==
    /\ pc[p] = "check"
    /\ LET v == is_safe_to_download(url[p], response[p])
       IN  /\ is_safe' = [is_safe EXCEPT ![p] = ~v.raised /\ v.safe]
           /\ IF v.raised THEN Return(p, FALSE, "error")
              ELSE IF ~v.safe THEN Return(p, FALSE, "rejected")
              ELSE /\ pc' = [pc EXCEPT ![p] = "content"]
                   /\ UNCHANGED <<returned, outcome>>
    /\ UNCHANGED <<fs, driver, url, is_dup, scanned, response, content,
                   existing_filename, original_filepath, filepath, counter,
                   fs0>>

\* line 115: the body is read; a failure raises RequestException
ContentFails(p) ==
    /\ pc[p] = "content"
    /\ Return(p, FALSE, "connection_error")
    /\ UNCHANGED <<fs, driver, url, is_safe, is_dup, scanned, response,
                   content, existing_filename, original_filepath, filepath,
                   counter, fs0>>

ContentOk(p) ==
    /\ pc[p] = "content"
    /\ \E c \in Contents : content' = [content EXCEPT ![p] = c]
    /\ pc' = [pc EXCEPT ![p] = "scan"]
    /\ UNCHANGED <<fs, driver, url, is_safe, is_dup, scanned, response,
                   existing_filename, original_filepath, filepath, counter,
                   returned, outcome, fs0>>

\* the orders os.listdir may give the entries in
RECURSIVE Listings(_)
Listings(names) ==
    IF names = {} THEN {<<>>}
    ELSE UNION {{<<n>> \o l : l \in Listings(names \ {n})} : n \in names}

\* the duplicate check with a match only recorded: the call goes on to name
\* and write the file
Scan_goes_on(p) ==
    /\ pc[p] = "scan"
    /\ \E listing \in Listings(DOMAIN fs) :
         LET r == is_duplicate_image(content[p], fs, listing)
         IN  /\ is_dup' = [is_dup EXCEPT ![p] = r.dup]
             /\ existing_filename' = [existing_filename EXCEPT ![p] = r.name]
             /\ scanned' = [scanned EXCEPT ![p] = r.examined]
    /\ pc' = [pc EXCEPT ![p] = "name"]
    /\ UNCHANGED <<fs, driver, url, is_safe, response, content,
                   original_filepath, filepath, counter, returned, outcome, fs0>>

\* lines 118-121: the duplicate scan
Scan(p) ==
    /\ pc[p] = "scan"
    /\ \E listing \in Listings(DOMAIN fs) :
         LET r == is_duplicate_image(content[p], fs, listing)
         IN  /\ is_dup' = [is_dup EXCEPT ![p] = r.dup]
             /\ existing_filename' = [existing_filename EXCEPT ![p] = r.name]
             /\ scanned' = [scanned EXCEPT ![p] = r.examined]
             /\ IF r.dup THEN Return(p, TRUE, "duplicate")
                ELSE /\ pc' = [pc EXCEPT ![p] = "name"]
                     /\ UNCHANGED <<returned, outcome>>
    /\ UNCHANGED <<fs, driver, url, is_safe, response, content,
                   original_filepath, filepath, counter, fs0>>

\* line 30: os.listdir(directory) raises OSError (the directory cannot be
\* listed); the handler of line 145 takes it
ScanFails(p) ==
    /\ pc[p] = "scan"
    /\ Return(p, FALSE, "error")
    /\ UNCHANGED <<fs, driver, url, is_safe, is_dup, scanned, response,
                   content, existing_filename, original_filepath, filepath,
                   counter, fs0>>

\* lines 124-129: the candidate name
Name(p) ==
    /\ pc[p] = "name"
    /\ LET path == os_path_join(Directory, get_filename_from_url(url[p], response[p]))
       IN  /\ filepath' = [filepath EXCEPT ![p] = path]
           /\ original_filepath' = [original_filepath EXCEPT ![p] = path]
    /\ counter' = [counter EXCEPT ![p] = 1]
    /\ pc' = [pc EXCEPT ![p] = "loop"]
    /\ UNCHANGED <<fs, driver, url, is_safe, is_dup, scanned, response,
                   content, existing_filename, returned, outcome, fs0>>

\* the conflict loop written as an if: the path is renamed once at most
Loop_once(p) ==
    /\ pc[p] = "loop"
    /\ IF path_exists(fs, filepath[p]) /\ counter[p] = 1
       THEN /\ filepath' = [filepath EXCEPT ![p] =
                    splitext(original_filepath[p])[1] \o <<"_">>
                        \o IntToStr(counter[p]) \o splitext(original_filepath[p])[2]]
            /\ counter' = [counter EXCEPT ![p] = counter[p] + 1]
            /\ UNCHANGED pc
       ELSE /\ pc' = [pc EXCEPT ![p] = "write"]
            /\ UNCHANGED <<filepath, counter>>
    /\ UNCHANGED <<fs, driver, url, is_safe, is_dup, scanned, response,
                   content, existing_filename, original_filepath, returned,
                   outcome, fs0>>

\* the conflict loop left out: the candidate path is written as it is
Loop_absent(p) ==
    /\ pc[p] = "loop"
    /\ pc' = [pc EXCEPT ![p] = "write"]
    /\ UNCHANGED <<fs, driver, url, is_safe, is_dup, scanned, response,
                   content, existing_filename, original_filepath, filepath,
                   counter, returned, outcome, fs0>>

\* the conflict loop without counter += 1: the same suffixed path is tried
\* again and again
Loop_stuck(p) ==
    /\ pc[p] = "loop"
    /\ IF path_exists(fs, filepath[p])
       THEN /\ filepath' = [filepath EXCEPT ![p] =
                    splitext(original_filepath[p])[1] \o <<"_">>
                        \o IntToStr(counter[p]) \o splitext(original_filepath[p])[2]]
            /\ UNCHANGED <<pc, counter>>
       ELSE /\ pc' = [pc EXCEPT ![p] = "write"]
            /\ UNCHANGED <<filepath, counter>>
    /\ UNCHANGED <<fs, driver, url, is_safe, is_dup, scanned, response,
                   content, existing_filename, original_filepath, returned,
                   outcome, fs0>>

\* lines 130-133: one test of the while loop, and its body when the path exists
Loop(p) ==
    /\ pc[p] = "loop"
    /\ IF path_exists(fs, filepath[p])
       THEN /\ filepath' = [filepath EXCEPT ![p] =
                    splitext(original_filepath[p])[1] \o <<"_">>
                        \o IntToStr(counter[p]) \o splitext(original_filepath[p])[2]]
            /\ counter' = [counter EXCEPT ![p] = counter[p] + 1]
            /\ UNCHANGED pc
       ELSE /\ pc' = [pc EXCEPT ![p] = "write"]
            /\ UNCHANGED <<filepath, counter>>
    /\ UNCHANGED <<fs, driver, url, is_safe, is_dup, scanned, response,
                   content, existing_filename, original_filepath, returned,
                   outcome, fs0>>

\* the proper prefixes of a byte sequence
Prefixes(c) == {Take(c, n) : n \in 1..Len(c)}

\* line 136: open(filepath, 'wb') fails, nothing is created
OpenFails(p) ==
    /\ pc[p] = "write"
    /\ Return(p, FALSE, "error")
    /\ UNCHANGED <<fs, driver, url, is_safe, is_dup, scanned, response,
                   content, existing_filename, original_filepath, filepath,
                   counter, fs0>>

\* a failed f.write passed over: the call goes on to report success
WriteFails_unnoticed(p) ==
    /\ pc[p] = "write"
    /\ ~(EntryOf(filepath[p]) \in DOMAIN fs /\ fs[EntryOf(filepath[p])].kind = "dir")
    /\ \E part \in Prefixes(content[p]) :
         fs' = (EntryOf(filepath[p]) :> File(part, TRUE)) @@ fs
    /\ Return(p, TRUE, "written")
    /\ UNCHANGED <<driver, url, is_safe, is_dup, scanned, response, content,
                   existing_filename, original_filepath, filepath, counter,
                   fs0>>

\* lines 136-137: the file is created or truncated, then f.write fails after
\* some of the bytes
WriteFails(p) ==
    /\ pc[p] = "write"
    /\ ~(EntryOf(filepath[p]) \in DOMAIN fs /\ fs[EntryOf(filepath[p])].kind = "dir")
    /\ \E part \in Prefixes(content[p]) :
         fs' = (EntryOf(filepath[p]) :> File(part, TRUE)) @@ fs
    /\ Return(p, FALSE, "error")
    /\ UNCHANGED <<driver, url, is_safe, is_dup, scanned, response, content,
                   existing_filename, original_filepath, filepath, counter,
                   fs0>>

\* lines 136-141: the file is created or truncated and gets the content
WriteOk(p) ==
    /\ pc[p] = "write"
    /\ ~(EntryOf(filepath[p]) \in DOMAIN fs /\ fs[EntryOf(filepath[p])].kind = "dir")
    /\ fs' = (EntryOf(filepath[p]) :> File(content[p], TRUE)) @@ fs
    /\ Return(p, TRUE, "written")
    /\ UNCHANGED <<driver, url, is_safe, is_dup, scanned, response, content,
                   existing_filename, original_filepath, filepath, counter,
                   fs0>>

Step(p) ==
    \/ HeadProbe(p)
    \/ GetFails(p)
    \/ GetOk(p)
    \/ Check(p)
    \/ ContentFails(p)
    \/ ContentOk(p)
    \/ ScanFails(p)
    \/ Scan(p)
    \/ Name(p)
    \/ Loop(p)
    \/ OpenFails(p)
    \/ WriteFails(p)
    \/ WriteOk(p)

(***************************************************************************)
(* main(): the loop over the URLs.                                         *)
(***************************************************************************)
\* lines 173-175: the next URL is handed to download_single_image
MainCall ==
    /\ i < Len(urls)
    /\ Call(Main, urls[i + 1])
    /\ UNCHANGED driver

\* the return of a call counted as a success whatever it returned
MainReturn_counts_all ==
    /\ pc[Main] = "returned"
    /\ pc' = [pc EXCEPT ![Main] = "idle"]
    /\ i' = i + 1
    /\ successful_downloads' = successful_downloads + 1
    /\ UNCHANGED <<fs, urls, locals>>

\* lines 175-176: the call has returned
MainReturn ==
    /\ pc[Main] = "returned"
    /\ pc' = [pc EXCEPT ![Main] = "idle"]
    /\ i' = i + 1
    /\ successful_downloads' =
         IF returned[Main] THEN successful_downloads + 1 ELSE successful_downloads
    /\ UNCHANGED <<fs, urls, locals>>

Next ==
    \/ MainCall
    \/ MainReturn
    \/ Step(Main)

Spec == Init /\ [][Next]_vars

(***************************************************************************)
(* is_duplicate_image on its own: every directory over three names, every  *)
(* content.                                                                *)
(***************************************************************************)
ScanNames == {Str_image_jpg, Str_image_1_jpg, S_jpg}

ScanEntries == {File(c, r) : c \in Contents, r \in BOOLEAN} \cup {SubDir}

ScanDirs == UNION {[names -> ScanEntries] : names \in SUBSET ScanNames}

InitFind ==
    /\ fs \in ScanDirs
    /\ urls = <<>>
    /\ i = 0
    /\ successful_downloads = 0
    /\ pc = [p \in Procs |-> IF p = Main THEN "scan" ELSE "idle"]
    /\ url = [p \in Procs |-> None]
    /\ response = [p \in Procs |-> NoResponse]
    /\ is_safe = [p \in Procs |-> p = Main]
    /\ is_dup = [p \in Procs |-> FALSE]
    /\ scanned = [p \in Procs |-> 0]
    /\ \E c \in Contents : content = [p \in Procs |-> IF p = Main THEN c ELSE None]
    /\ existing_filename = [p \in Procs |-> None]
    /\ original_filepath = [p \in Procs |-> None]
    /\ filepath = [p \in Procs |-> None]
    /\ counter = [p \in Procs |-> 0]
    /\ returned = [p \in Procs |-> FALSE]
    /\ outcome = [p \in Procs |-> "none"]
    /\ fs0 = [p \in Procs |-> fs]

NextFind == Scan(Main)

SpecFind == InitFind /\ [][NextFind]_vars

\* the scan of invocation p has just given its answer
ScanDone(p) ==
    \/ pc[p] = "name"
    \/ pc[p] = "returned" /\ outcome[p] = "duplicate"

\* the entries of d that are regular files whose bytes have the digest of c
SameDigest(d, c) ==
    {n \in DOMAIN d : d[n].kind = "file" /\ md5(d[n].content) = md5(c)}

Readable(d) == {n \in DOMAIN d : d[n].readable}

(* C1, as stated: if the directory has a regular file whose digest is that  *)
(* of the content, is_duplicate_image answers True with the name of a file *)
(* of the directory that has this digest.                                  *)
C1_AsStated ==
    (ScanDone(Main) /\ SameDigest(fs, content[Main]) # {})
        => /\ is_dup[Main]
           /\ existing_filename[Main] \in SameDigest(fs, content[Main])

(* C1, amended: the same, for a regular file that can be read.             *)
C1_DuplicateFound ==
    (ScanDone(Main) /\ SameDigest(fs, content[Main]) \cap Readable(fs) # {})
        => /\ is_dup[Main]
           /\ existing_filename[Main] \in SameDigest(fs, content[Main])

\* the match was the third entry the scan took
C1_Witness ==
    /\ ScanDone(Main)
    /\ is_dup[Main]
    /\ scanned[Main] = 3
    /\ existing_filename[Main] \in SameDigest(fs, content[Main])

(* C2: if no regular file of the directory has the digest of the content,  *)
(* is_duplicate_image answers False with no name, having taken every entry *)
(* of the directory.                                                       *)
C2_NoDuplicate ==
    (ScanDone(Main) /\ SameDigest(fs, content[Main]) = {})
        => /\ ~is_dup[Main]
           /\ existing_filename[Main] = None
           /\ scanned[Main] = Cardinality(DOMAIN fs)

\* three entries were scanned, one of them not a regular file, without a match
C2_Witness ==
    /\ ScanDone(Main)
    /\ SameDigest(fs, content[Main]) = {}
    /\ ~is_dup[Main]
    /\ scanned[Main] = 3
    /\ \E n \in DOMAIN fs : fs[n].kind = "dir"
    /\ \E n \in DOMAIN fs : fs[n].kind = "file" /\ ~fs[n].readable

(***************************************************************************)
(* is_safe_to_download on its own: URLs with and without an image          *)
(* extension, content types and declared lengths around the limit.         *)
(***************************************************************************)
Url_upper == Str_scheme \o <<"x", "/", "A", ".", "P", "N", "G">>

ValidateUrls == {Url_image_a, Url_bare, Url_upper}

Str_1024 == <<"1", "0", "2", "4">>
Str_10MiB == <<"1", "0", "4", "8", "5", "7", "6", "0">>
Str_10MiB_1 == <<"1", "0", "4", "8", "5", "7", "6", "1">>

ValidateHeaders ==
    {t @@ l :
        t \in Header("content-type",
                     {S_image_png, S_text_html, S_text_plain, S_image_slash,
                      <<"I", "m", "a", "g", "e", "/", "p", "n", "g">>,
                      <<"x">> \o S_image_png, S_image_png \o <<";", "q">>}),
        l \in Header("content-length",
                     {<<>>, Str_1024, Str_10MiB, Str_10MiB_1, Str_20MiB,
                      <<"x">>, <<"-", "1">>})}

InitValidate ==
    /\ fs = NoHeaders
    /\ urls = <<>>
    /\ i = 0
    /\ successful_downloads = 0
    /\ pc = [p \in Procs |-> IF p = Main THEN "check" ELSE "idle"]
    /\ \E u \in ValidateUrls : url = [p \in Procs |-> IF p = Main THEN u ELSE None]
    /\ \E h \in ValidateHeaders :
         response = [p \in Procs |-> IF p = Main THEN [headers |-> h] ELSE NoResponse]
    /\ is_safe = [p \in Procs |-> FALSE]
    /\ is_dup = [p \in Procs |-> FALSE]
    /\ scanned = [p \in Procs |-> 0]
    /\ content = [p \in Procs |-> None]
    /\ existing_filename = [p \in Procs |-> None]
    /\ original_filepath = [p \in Procs |-> None]
    /\ filepath = [p \in Procs |-> None]
    /\ counter = [p \in Procs |-> 0]
    /\ returned = [p \in Procs |-> FALSE]
    /\ outcome = [p \in Procs |-> "none"]
    /\ fs0 = [p \in Procs |-> fs]

NextValidate == Check(Main)

SpecValidate == InitValidate /\ [][NextValidate]_vars

\* the safety check of invocation p has just given its verdict, or raised
CheckDone(p) ==
    \/ pc[p] = "content"
    \/ pc[p] = "returned" /\ outcome[p] = "rejected"
    \/ pc[p] = "returned" /\ outcome[p] = "error" /\ content[p] = None

ContentType(p) == Get(response[p].headers, "content-type", <<>>)

HasLength(p) == "content-length" \in DOMAIN response[p].headers

Length(p) == response[p].headers["content-length"]

\* the declared length is an integer no greater than 10 MiB
LengthWithinLimit(p) ==
    /\ HasLength(p)
    /\ PyInt(Length(p)).ok
    /\ PyInt(Length(p)).value <= 10 * 1024 * 1024

(* C5, as stated: the verdict is accepted exactly when the content type    *)
(* begins with image/ and the content length is absent or an integer of at *)
(* most 10 MiB.                                                            *)
C5_AsStated ==
    CheckDone(Main)
        => (is_safe[Main] <=>
                /\ StartsWith(ContentType(Main), S_image_slash)
                /\ ~HasLength(Main) \/ LengthWithinLimit(Main))

(* C5, amended: the verdict is accepted exactly when the content type      *)
(* begins with image/ and the content length is absent, empty, or an       *)
(* integer of at most 10 MiB; whatever the URL is, text/html is rejected,  *)
(* image/png is accepted with length 1024 and with length 10485760 and     *)
(* rejected with length 20971520.                                          *)
C5_Verdict ==
    CheckDone(Main)
        => /\ is_safe[Main] <=>
                /\ StartsWith(ContentType(Main), S_image_slash)
                /\ \/ ~HasLength(Main)
                   \/ Length(Main) = <<>>
                   \/ LengthWithinLimit(Main)
           /\ ContentType(Main) = S_text_html => ~is_safe[Main]
           /\ (ContentType(Main) = S_image_png /\ HasLength(Main))
                => /\ Length(Main) = Str_1024 => is_safe[Main]
                   /\ Length(Main) = Str_10MiB => is_safe[Main]
                   /\ Length(Main) = Str_20MiB => ~is_safe[Main]

\* a length of exactly 10 MiB was accepted for a URL without an extension
C5_Witness ==
    /\ pc[Main] = "content"
    /\ is_safe[Main]
    /\ url[Main] = Url_bare
    /\ HasLength(Main)
    /\ Length(Main) = Str_10MiB

(***************************************************************************)
(* Filename resolution on its own (get_filename_from_url, then the         *)
(* conflict loop), done twice in a row on the same URL, response and       *)
(* directory with nothing written in between: invocation 2 resolves once   *)
(* invocation 1 has its path.                                              *)
(***************************************************************************)
Url_dot == Str_scheme \o <<"x", "/", "p", "h", "o", "t", "o", ".">>
Url_root == Str_scheme \o <<"x", "/">>
Url_dots == Str_scheme \o <<"x", "/", ".", ".">>

ResolveUrls == {Url_image_a, Url_hidden, Url_bare, Url_dot, Url_root, Url_dots}

Disp_cut == S_filename_eq \o <<"a", ".", "#", "b">>
Disp_bad == S_filename_eq \o <<"'", "%", "'">>

ResolveHeaders ==
    {t @@ d :
        t \in Header("content-type",
                     {S_image_png, S_image_slash \o <<"x">>, S_image_gif \o <<";", "q">>}),
        d \in Header("content-disposition", {Disp_gif, Disp_cut, Disp_bad})}

ResolveNames ==
    {Str_image_jpg, Str_image_1_jpg, S_jpg, <<"p", "h", "o", "t", "o", ".">>,
     S_downloaded_image \o S_png}

ResolveDirs == {[n \in names |-> File(<<>>, TRUE)] : names \in SUBSET ResolveNames}

InitResolve ==
    /\ fs \in ResolveDirs
    /\ urls = <<>>
    /\ i = 0
    /\ successful_downloads = 0
    /\ pc = [p \in Procs |-> "name"]
    /\ \E u \in ResolveUrls : url = [p \in Procs |-> u]
    /\ \E h \in ResolveHeaders : response = [p \in Procs |-> [headers |-> h]]
    /\ is_safe = [p \in Procs |-> TRUE]
    /\ is_dup = [p \in Procs |-> FALSE]
    /\ scanned = [p \in Procs |-> 0]
    /\ content = [p \in Procs |-> <<>>]
    /\ existing_filename = [p \in Procs |-> None]
    /\ original_filepath = [p \in Procs |-> None]
    /\ filepath = [p \in Procs |-> None]
    /\ counter = [p \in Procs |-> 0]
    /\ returned = [p \in Procs |-> FALSE]
    /\ outcome = [p \in Procs |-> "none"]
    /\ fs0 = [p \in Procs |-> fs]

ResolveFirst ==
    \/ Name(Main)
    \/ Loop(Main)

ResolveSecond ==
    /\ pc[Main] = "write"
    /\ \/ Name(2)
       \/ Loop(2)

NextResolve ==
    \/ ResolveFirst
    \/ ResolveSecond

SpecResolve == InitResolve /\ [][NextResolve]_vars

\* invocation p has resolved its path and not yet written
Resolved(p) == pc[p] = "write"

(* C4, as stated: two resolutions in a row, with nothing written between   *)
(* them, give two different names.                                         *)
C4_AsStated ==
    (Resolved(1) /\ Resolved(2)) => filepath[1] # filepath[2]

(* C4, amended: two resolutions in a row, with nothing written between     *)
(* them, give the same name, and no path of that name exists.              *)
C4_SameFreeName ==
    (Resolved(1) /\ Resolved(2))
        => /\ filepath[1] = filepath[2]
           /\ ~path_exists(fs, filepath[2])

\* both resolutions went twice through the loop body
C4_Witness ==
    /\ Resolved(1)
    /\ Resolved(2)
    /\ counter[1] = 3
    /\ counter[2] = 3

(* C10: the resolved name has a "." that is followed by at least one       *)
(* character.                                                              *)
C10_HasExtension ==
    \A p \in Procs :
        Resolved(p) =>
            \E k \in 1..(Len(EntryOf(filepath[p])) - 1) : EntryOf(filepath[p])[k] = "."

(***************************************************************************)
(* Claims about download_single_image as main() runs it (Spec).            *)
(***************************************************************************)
\* invocation p leaves the write step
Writes(p) == pc[p] = "write" /\ pc'[p] # "write"

\* every entry of d is in e, unchanged
Kept(d, e) == \A n \in DOMAIN d : n \in DOMAIN e /\ e[n] = d[n]

(* C3: the path opened for writing does not exist just before the write,   *)
(* and the write leaves every entry the directory had as it was.           *)
C3_NoOverwrite ==
    [][\A p \in Procs :
         Writes(p) => ~path_exists(fs, filepath[p]) /\ Kept(fs, fs')]_vars

\* a file was written under a suffixed name beside the one it collided with
C3_Witness ==
    /\ pc[Main] = "returned"
    /\ outcome[Main] = "written"
    /\ counter[Main] = 2
    /\ EntryOf(original_filepath[Main]) \in DOMAIN fs
    /\ EntryOf(filepath[Main]) \in DOMAIN fs
    /\ fs[EntryOf(original_filepath[Main])].content # content[Main]

Done(p) == pc[p] = "returned"

\* the regular files of d whose bytes are c
SameBytes(d, c) == {n \in DOMAIN d : d[n].kind = "file" /\ d[n].content = c}

Failures == {"rejected", "connection_error", "error"}

(* C6, as stated: when the call returns True the directory has a file      *)
(* whose bytes are the content retrieved; it returns False only when the   *)
(* resource was rejected or a step failed.                                 *)
C6_AsStated ==
    Done(Main)
        => /\ returned[Main] => SameBytes(fs, content[Main]) # {}
           /\ ~returned[Main] => outcome[Main] \in Failures

(* C6, amended: when the call returns True the directory has a readable    *)
(* regular file whose digest is that of the content retrieved: the file    *)
(* just written, which has these very bytes, or the duplicate that was     *)
(* found; it returns False only when the resource was rejected or a step   *)
(* failed.                                                                 *)
C6_Persisted ==
    Done(Main)
        => /\ returned[Main] =>
                \/ /\ outcome[Main] = "written"
                   /\ EntryOf(filepath[Main]) \in SameBytes(fs, content[Main]) \cap Readable(fs)
                \/ /\ outcome[Main] = "duplicate"
                   /\ existing_filename[Main]
                        \in SameDigest(fs, content[Main]) \cap Readable(fs)
           /\ ~returned[Main] => outcome[Main] \in Failures

\* True was returned for a duplicate whose bytes are not those retrieved
C6_Witness ==
    /\ Done(Main)
    /\ returned[Main]
    /\ outcome[Main] = "duplicate"
    /\ fs[existing_filename[Main]].content # content[Main]

(* C7, as stated: when the content retrieved has the digest of a file that *)
(* is in the directory, the call returns True and the directory is as it   *)
(* was when the call began.                                                *)
C7_AsStated ==
    (Done(Main) /\ content[Main] # None /\ SameDigest(fs0[Main], content[Main]) # {})
        => returned[Main] /\ fs = fs0[Main]

(* C7, amended: the same, for a file of the directory that can be read, in *)
(* a call whose scan took the entries of the directory.                    *)
C7_DuplicateKept ==
    (/\ Done(Main)
     /\ content[Main] # None
     /\ scanned[Main] > 0
     /\ SameDigest(fs0[Main], content[Main]) \cap Readable(fs0[Main]) # {})
        => /\ returned[Main]
           /\ outcome[Main] = "duplicate"
           /\ fs = fs0[Main]

\* the same URL was fetched twice in a row and the second fetch found the
\* one file of the directory
C7_Witness ==
    /\ Done(Main)
    /\ i = 1
    /\ urls[1] = urls[2]
    /\ successful_downloads = 1
    /\ outcome[Main] = "duplicate"
    /\ DOMAIN fs = {Str_image_jpg}
    /\ existing_filename[Main] = Str_image_jpg

\* the declared length is an integer greater than 10 MiB
LengthOverLimit(p) ==
    /\ HasLength(p)
    /\ PyInt(Length(p)).ok
    /\ PyInt(Length(p)).value > 10 * 1024 * 1024

\* the response of invocation p is one the validator is to reject
ToReject(p) ==
    \/ ContentType(p) = S_text_plain
    \/ StartsWith(ContentType(p), S_image_slash) /\ LengthOverLimit(p)

(* C8: when the validator rejects the response, as for text/plain or for a *)
(* declared length above 10 MiB, the call returns False and the directory  *)
(* is as it was when the call began.                                       *)
C8_RejectedNoWrite ==
    /\ (Done(Main) /\ ToReject(Main))
            => ~returned[Main] /\ outcome[Main] = "rejected" /\ fs = fs0[Main]
    /\ (Done(Main) /\ outcome[Main] = "rejected")
            => ~returned[Main] /\ content[Main] = None /\ fs = fs0[Main]

\* an image declared too long was rejected by the second call of a run
C8_Witness ==
    /\ Done(Main)
    /\ i = 1
    /\ successful_downloads = 1
    /\ ContentType(Main) = S_image_png
    /\ LengthOverLimit(Main)
    /\ outcome[Main] = "rejected"
    /\ fs # NoHeaders

\* name with _n put before its extension, the extension being what starts at
\* the last "." of the name
Suffixed(name, n) ==
    Take(name, RFind(name, ".")) \o <<"_">> \o IntToStr(n) \o Drop(name, RFind(name, "."))

Exists(d, name) == path_exists(d, os_path_join(Directory, name))

\* the first free name for the candidate in directory d
FirstFree(d, candidate) ==
    IF ~Exists(d, candidate) THEN candidate
    ELSE Suffixed(candidate,
                  CHOOSE n \in 1..(Cardinality(DOMAIN d) + 1) :
                      /\ ~Exists(d, Suffixed(candidate, n))
                      /\ \A m \in 1..(n - 1) : Exists(d, Suffixed(candidate, m)))

(* C9: the file is written under the candidate name when no such path      *)
(* exists, and otherwise under the candidate with _n before its extension, *)
(* n being the least integer from 1 on for which no such path exists.      *)
C9_FirstFreeName ==
    (Done(Main) /\ outcome[Main] = "written")
        => EntryOf(filepath[Main])
             = FirstFree(fs0[Main], EntryOf(original_filepath[Main]))

\* every character of name is one of safe_chars
SafeName(name) == \A k \in 1..Len(name) : name[k] \in safe_chars

\* path is the target directory, a separator, and a name without separator
InDirectory(path) ==
    /\ Len(path) > Len(Directory) + 1
    /\ path = os_path_join(Directory, EntryOf(path))
    /\ ~Contains(EntryOf(path), "/")

(* C11: every name a file is written under, with or without a conflict     *)
(* suffix, is made of characters of the safe set only and has no path      *)
(* separator: the path opened is directly inside the target directory, and *)
(* every entry the call has added to the directory has such a name.        *)
C11_SafeName ==
    /\ (pc[Main] = "write" \/ (Done(Main) /\ outcome[Main] = "written"))
            => /\ InDirectory(filepath[Main])
               /\ SafeName(EntryOf(filepath[Main]))
    /\ pc[Main] # "idle" =>
         \A n \in DOMAIN fs \ DOMAIN fs0[Main] :
            /\ SafeName(n)
            /\ ~Contains(n, "/")
            /\ n = EntryOf(filepath[Main])

\* a file was written under a suffixed name for a URL whose last segment
\* has a character outside the safe set
C11_Witness ==
    /\ Done(Main)
    /\ outcome[Main] = "written"
    /\ url[Main] = Url_hidden
    /\ counter[Main] = 2
    /\ EntryOf(filepath[Main]) \in DOMAIN fs \ DOMAIN fs0[Main]

\* the step invocation p takes is one in which the operation of its step
\* raised: no response, no verdict, no body, no listing, or a file that was
\* not created or did not get all the bytes
Raises(p) ==
    /\ pc'[p] # pc[p]
    /\ \/ pc[p] = "get" /\ pc'[p] # "check"
       \/ pc[p] = "check" /\ is_safe_to_download(url[p], response[p]).raised
       \/ pc[p] = "content" /\ content'[p] = None
       \/ pc[p] = "scan" /\ pc'[p] # "name" /\ ~is_dup'[p]
       \/ pc[p] = "write"
            /\ ~(/\ EntryOf(filepath[p]) \in DOMAIN fs'
                 /\ fs'[EntryOf(filepath[p])].content = content[p])

(* C12: whenever a step of the call raises (the GET request or its status, *)
(* the safety check, the reading of the body, the duplicate scan, the      *)
(* opening or the writing of the file), the call ends there in one of its  *)
(* two handlers and returns False.                                         *)
C12_ErrorsCaught ==
    [][\A p \in Procs :
         Raises(p) => /\ pc'[p] = "returned"
                      /\ ~returned'[p]
                      /\ outcome'[p] \in {"connection_error", "error"}]_vars

\* the second call of a run returned False after a write that left a part
\* of the bytes, and the first had returned True
C12_Witness ==
    /\ Done(Main)
    /\ i = 1
    /\ successful_downloads = 1
    /\ ~returned[Main]
    /\ outcome[Main] = "error"
    /\ EntryOf(filepath[Main]) \in DOMAIN fs \ DOMAIN fs0[Main]
    /\ fs[EntryOf(filepath[Main])].content # content[Main]

\* main() hands a URL to download_single_image
Calls == pc[Main] = "idle" /\ pc'[Main] # "idle"

\* main() takes the value download_single_image returned
Returns == pc[Main] = "returned" /\ pc'[Main] # "returned"

(* C13: main() takes the URLs one at a time in the order of the list: a    *)
(* call is made with the URL that follows the i handled so far, which is   *)
(* possible whatever the earlier calls returned, and no other call is made *)
(* before it returns; its return moves i on by one and adds one to the     *)
(* count exactly when it returned True; within a call i, the count and the *)
(* list stay as they are. So the count is the number of calls that         *)
(* returned True, between 0 and the number of URLs handled.                *)
C13_InOrderOnce ==
    [][/\ (pc[Main] = "idle" /\ i < Len(urls)) => ENABLED MainCall
       /\ Calls => /\ i < Len(urls)
                   /\ pc'[Main] = "head"
                   /\ url'[Main] = urls[i + 1]
                   /\ UNCHANGED driver
       /\ Returns => /\ pc'[Main] = "idle"
                     /\ i' = i + 1
                     /\ urls' = urls
                     /\ successful_downloads' =
                          successful_downloads + (IF returned[Main] THEN 1 ELSE 0)
       /\ (~Calls /\ ~Returns) => UNCHANGED <<driver, url>>
       /\ 0 <= successful_downloads' /\ successful_downloads' <= i'
       /\ i' <= Len(urls')]_vars

\* both URLs of a list of two have been handled, the first call returned
\* False and the second True
C13_Witness ==
    /\ pc[Main] = "idle"
    /\ Len(urls) = 2
    /\ i = 2
    /\ successful_downloads = 1
    /\ returned[Main]
    /\ url[Main] = urls[2]
    /\ urls[1] # urls[2]

\* the regular files of d
Files(d) == {n \in DOMAIN d : d[n].kind = "file"}

\* no two regular files of d have the same bytes
PairwiseDifferent(d) ==
    \A m, n \in Files(d) : m # n => d[m].content # d[n].content

(* C14: if the regular files of the directory were all readable and        *)
(* pairwise different in content when a call began, no two regular files   *)
(* of the directory have the same content during or after the call; so,    *)
(* call after call, from such a directory on.                              *)
C14_NoTwoAlike ==
    (/\ pc[Main] # "idle"
     /\ Files(fs0[Main]) \subseteq Readable(fs0[Main])
     /\ PairwiseDifferent(fs0[Main]))
        => PairwiseDifferent(fs)

(***************************************************************************)
(* Two invocations of download_single_image interleaved on one directory,  *)
(* as a concurrent caller would run them: each has its response and its    *)
(* content and is about to scan; their steps from the scan to the write    *)
(* are taken in any order, with no lock.                                   *)
(***************************************************************************)
ConcUrls == {Url_image_a, Url_image_b, Url_bare}

ConcDirs == {NoHeaders, Str_image_jpg :> File(<<"0">>, TRUE)}

InitConc ==
    /\ fs \in ConcDirs
    /\ urls = <<>>
    /\ i = 0
    /\ successful_downloads = 0
    /\ pc = [p \in Procs |-> "scan"]
    /\ url \in [Procs -> ConcUrls]
    /\ response = [p \in Procs |-> [headers |-> "content-type" :> S_image_png]]
    /\ is_safe = [p \in Procs |-> TRUE]
    /\ is_dup = [p \in Procs |-> FALSE]
    /\ scanned = [p \in Procs |-> 0]
    /\ content \in [Procs -> Contents]
    /\ existing_filename = [p \in Procs |-> None]
    /\ original_filepath = [p \in Procs |-> None]
    /\ filepath = [p \in Procs |-> None]
    /\ counter = [p \in Procs |-> 0]
    /\ returned = [p \in Procs |-> FALSE]
    /\ outcome = [p \in Procs |-> "none"]
    /\ fs0 = [p \in Procs |-> fs]

ScanToWrite(p) ==
    \/ ScanFails(p)
    \/ Scan(p)
    \/ Name(p)
    \/ Loop(p)
    \/ OpenFails(p)
    \/ WriteFails(p)
    \/ WriteOk(p)

NextConc == \E p \in Procs : ScanToWrite(p)

SpecConc == InitConc /\ [][NextConc]_vars

\* invocation p is about to write although its path exists, or although a
\* readable file of the directory has the bytes it is about to write
WritesBlind(p) ==
    /\ pc[p] = "write"
    /\ \/ path_exists(fs, filepath[p])
       \/ SameBytes(fs, content[p]) \cap Readable(fs) # {}

(* C15: with two invocations interleaved on one directory without a lock,  *)
(* the scan and the write of an invocation are a check-then-act race. An   *)
(* invocation can come to its write with a readable file of its content    *)
(* already in the directory, or with its path already existing: the states *)
(* C15_Witness (two files of the same content, each invocation having      *)
(* passed the scan) and C15_Overwritten (both invocations with the same    *)
(* path, the bytes of one replaced by the other's) are reachable. This     *)
(* happens only through the interleaving: the directory is then no longer  *)
(* the one the invocation began its scan with.                             *)
C15_CheckThenAct ==
    \A p \in Procs : WritesBlind(p) => fs # fs0[p]

\* both invocations carried the same content, passed the scan and wrote:
\* the directory has two new files with these bytes
C15_Witness ==
    /\ \A p \in Procs : Done(p) /\ outcome[p] = "written" /\ ~is_dup[p]
    /\ content[1] = content[2]
    /\ filepath[1] # filepath[2]
    /\ \A p \in Procs :
         EntryOf(filepath[p]) \in SameBytes(fs, content[p]) \ DOMAIN fs0[p]

\* both invocations resolved the same path and wrote: the file has the
\* bytes of one of them, those of the other are gone
C15_Overwritten ==
    /\ \A p \in Procs : Done(p) /\ outcome[p] = "written"
    /\ filepath[1] = filepath[2]
    /\ content[1] # content[2]
    /\ md5(content[1]) # md5(content[2])
    /\ SameBytes(fs, content[1]) = {}
    /\ EntryOf(filepath[2]) \in SameBytes(fs, content[2])

\* the order of the steps of a call: from each step, the steps that may
\* come next
StepOrder ==
    {<<"idle", "head">>, <<"head", "get">>,
     <<"get", "check">>, <<"get", "returned">>,
     <<"check", "content">>, <<"check", "returned">>,
     <<"content", "scan">>, <<"content", "returned">>,
     <<"scan", "name">>, <<"scan", "returned">>,
     <<"name", "loop">>, <<"loop", "write">>,
     <<"write", "returned">>, <<"returned", "idle">>}

\* invocation p has come to the duplicate scan in this call
CameToScan(p) == pc[p] \in {"scan", "name", "loop", "write"} \/ content[p] # None

\* invocation p has come to the filename resolution in this call
CameToName(p) == pc[p] \in {"name", "loop", "write"} \/ filepath[p] # None

(* C16: in a call the steps come in the order GET request, safety check,   *)
(* reading of the body and duplicate scan, filename resolution with the    *)
(* conflict loop, write, each step being left for the next or for the      *)
(* return; the safety check is left for the reading of the body only with  *)
(* an accepting verdict and the scan is not come to without one, the       *)
(* filename resolution is not come to when the scan found a duplicate,     *)
(* and the directory is changed only at the write step of a                *)
(* call whose response was accepted and whose scan found no match.         *)
C16_StepOrder ==
    [][\A p \in Procs :
         /\ pc'[p] # pc[p] => <<pc[p], pc'[p]>> \in StepOrder
         /\ (pc[p] = "check" /\ pc'[p] = "content") =>
                is_safe_to_download(url[p], response[p]).safe
         /\ CameToScan(p)' => is_safe'[p]
         /\ (pc'[p] = "returned" /\ outcome'[p] = "rejected") =>
                ~is_safe'[p] /\ ~CameToScan(p)' /\ ~CameToName(p)'
         /\ CameToName(p)' => is_safe'[p] /\ ~is_dup'[p] /\ content'[p] # None
         /\ (pc'[p] = "returned" /\ outcome'[p] = "duplicate") =>
                is_dup'[p] /\ ~CameToName(p)' /\ counter'[p] = 0
         /\ (pc[p] # "idle" /\ fs' # fs) =>
                /\ pc[p] = "write"
                /\ is_safe[p] /\ ~is_dup[p]
                /\ filepath[p] # None]_vars

\* after a call that wrote a file, a call for the same URL was accepted by
\* the safety check and ended at the scan, which took every entry up to the
\* duplicate; no name was resolved
C16_Witness ==
    /\ Done(Main)
    /\ i = 1
    /\ urls[1] = Url_hidden
    /\ url[Main] = Url_hidden
    /\ is_safe[Main]
    /\ is_dup[Main]
    /\ outcome[Main] = "duplicate"
    /\ scanned[Main] = Cardinality(DOMAIN fs)
    /\ Cardinality(DOMAIN fs) = 4
    /\ filepath[Main] = None

(* C17: the HEAD request is best effort. Whatever becomes of it, a         *)
(* response with a success status, a transport failure, a timeout or an    *)
(* error status, the call goes on to the GET request; the step leaves the  *)
(* directory, the value to return and every local of the call as they      *)
(* were, and the state it leads to is the same for every outcome, so that  *)
(* what the call returns and does to the directory from there on does not  *)
(* depend on the outcome.                                                  *)
C17_ProbeBestEffort ==
    [][\A p \in Procs :
         pc[p] = "head" =>
            /\ \A head \in HeadOutcomes : ENABLED HeadResult(p, head)
            /\ \A h1, h2 \in HeadOutcomes : HeadResult(p, h1) <=> HeadResult(p, h2)
            /\ pc'[p] # pc[p] =>
                  /\ pc'[p] = "get"
                  /\ UNCHANGED <<fs, driver, locals>>]_vars

\* the second call of a run has passed the HEAD request and made the GET
\* request, the first call having failed
C17_Witness ==
    /\ pc[Main] = "check"
    /\ i = 1
    /\ successful_downloads = 0
    /\ fs = fs0[Main]
    /\ HasLength(Main)

\* d without its entries that are not regular files or cannot be read
Cleaned(d) == [n \in Files(d) \cap Readable(d) |-> d[n]]

\* what is_duplicate_image may answer for content c in directory d, over
\* the orders os.listdir may give
Answers(c, d) ==
    {<<r.dup, r.name>> :
        r \in {is_duplicate_image(c, d, listing) : listing \in Listings(DOMAIN d)}}

(* C18: an entry of the directory that cannot be read, or that is not a    *)
(* regular file, gives no match and does not end the scan: the answer of   *)
(* is_duplicate_image is one it may give for the directory without these   *)
(* entries, a file named in the answer is a readable regular file, and     *)
(* with no match every entry of the directory has been taken.              *)
C18_UnreadableSkipped ==
    ScanDone(Main)
        => /\ <<is_dup[Main], existing_filename[Main]>>
                \in Answers(content[Main], Cleaned(fs))
           /\ is_dup[Main] => existing_filename[Main] \in Files(fs) \cap Readable(fs)
           /\ ~is_dup[Main] => scanned[Main] = Cardinality(DOMAIN fs)

\* the scan took an unreadable file of the digest sought and a subdirectory
\* and then found the duplicate as its third entry
C18_Witness ==
    /\ ScanDone(Main)
    /\ is_dup[Main]
    /\ scanned[Main] = 3
    /\ \E n \in DOMAIN fs : fs[n].kind = "dir"
    /\ \E n \in SameDigest(fs, content[Main]) : ~fs[n].readable

\* a candidate that is not empty and has a "."
Usable(name) == name # <<>> /\ \E k \in 1..Len(name) : name[k] = "."

\* the last segment of the path of the URL
LastSegment(u) ==
    SubSeq(urlparse_path(u), RFind(urlparse_path(u), "/") + 1, Len(urlparse_path(u)))

\* the text after filename= in the content-disposition header, without the
\* quotes around it; empty when there is no such header or no filename=
DispositionName(r) ==
    IF "content-disposition" \notin DOMAIN r.headers THEN <<>>
    ELSE LET d == r.headers["content-disposition"]
             at == FindFrom(d, S_filename_eq, 1)
         IN  IF at = 0 THEN <<>>
             ELSE Strip(Drop(d, at + Len(S_filename_eq)), {"\"", "'"})

\* the extension for the content type up to its first ";", .jpg when the
\* header is absent or the type has no extension
TypeExtension(r) ==
    IF "content-type" \notin DOMAIN r.headers THEN S_jpg
    ELSE LET type == SplitFirst(r.headers["content-type"], <<";">>)
         IN  IF guess_extension(type) = None THEN S_jpg ELSE guess_extension(type)

\* the name by the priority the claim gives
ByPriority(u, r) ==
    IF Usable(LastSegment(u)) THEN LastSegment(u)
    ELSE IF Usable(DispositionName(r)) THEN DispositionName(r)
    ELSE S_downloaded_image \o TypeExtension(r)

\* lines 78-87 applied to a name: the cleaning, and the extension added to a
\* name left without "."
Finished(name, r) ==
    IF Contains(name_cleaned(name), ".")
    THEN name_cleaned(name)
    ELSE name_cleaned(name) \o TypeExtension(r)

(* C19: the name derived from the URL and the response is the last segment *)
(* of the URL path when this is not empty and has a "."; otherwise the     *)
(* text after filename= of content-disposition, quotes trimmed, when this  *)
(* is not empty and has a "."; otherwise downloaded_image with the         *)
(* extension of the content type up to its first ";", .jpg when there is   *)
(* none. The candidate path of the call is this name, cleaned.             *)
C19_DerivationOrder ==
    \A p \in Procs :
        pc[p] \in {"loop", "write"} =>
            /\ name_derived(url[p], response[p]) = ByPriority(url[p], response[p])
            /\ original_filepath[p] =
                 os_path_join(Directory,
                              Finished(ByPriority(url[p], response[p]), response[p]))

\* a URL whose last segment has no ".", a content-disposition whose name
\* has none either: the name was synthesized with the extension of
\* image/gif;q
C19_Witness ==
    /\ Resolved(Main)
    /\ url[Main] = Url_bare
    /\ "content-disposition" \in DOMAIN response[Main].headers
    /\ response[Main].headers["content-disposition"] = Disp_bad
    /\ ContentType(Main) = S_image_gif \o <<";", "q">>
    /\ EntryOf(original_filepath[Main]) = S_downloaded_image \o S_gif

(***************************************************************************)
(* The conflict loop on its own, entered with the candidate path of lines  *)
(* 124-129, in directories where up to three names in a row are taken. The *)
(* invocation goes on with its next statement as long as it has one: a     *)
(* sequential program that runs does not stop between two statements.      *)
(***************************************************************************)
Str_image_2_jpg == <<"i", "m", "a", "g", "e", "_", "2", ".", "j", "p", "g">>

LoopUrls == {Url_image_a, Url_hidden, Url_bare, Url_dots}

LoopNames == {Str_image_jpg, Str_image_1_jpg, Str_image_2_jpg, S_jpg}

LoopDirs ==
    UNION {[names -> {File(<<>>, TRUE), SubDir}] : names \in SUBSET LoopNames}

InitLoop ==
    /\ fs \in LoopDirs
    /\ urls = <<>>
    /\ i = 0
    /\ successful_downloads = 0
    /\ pc = [p \in Procs |-> IF p = Main THEN "loop" ELSE "idle"]
    /\ \E u \in LoopUrls : url = [p \in Procs |-> IF p = Main THEN u ELSE None]
    /\ response = [p \in Procs |->
                     IF p = Main THEN [headers |-> "content-type" :> S_image_png]
                     ELSE NoResponse]
    /\ is_safe = [p \in Procs |-> p = Main]
    /\ is_dup = [p \in Procs |-> FALSE]
    /\ scanned = [p \in Procs |-> 0]
    /\ content = [p \in Procs |-> IF p = Main THEN <<>> ELSE None]
    /\ existing_filename = [p \in Procs |-> None]
    /\ original_filepath =
         [p \in Procs |->
            IF p = Main
            THEN os_path_join(Directory, get_filename_from_url(url[p], response[p]))
            ELSE None]
    /\ filepath = original_filepath
    /\ counter = [p \in Procs |-> IF p = Main THEN 1 ELSE 0]
    /\ returned = [p \in Procs |-> FALSE]
    /\ outcome = [p \in Procs |-> "none"]
    /\ fs0 = [p \in Procs |-> fs]

NextLoop == Loop(Main)

SpecLoop == InitLoop /\ [][NextLoop]_vars /\ WF_vars(NextLoop)

(* C20: the conflict loop ends. With nothing else writing to the           *)
(* directory, an invocation that has come to the loop comes to the write   *)
(* step, and the counter has then been incremented at most one more time   *)
(* than the directory has entries.                                         *)
C20_LoopTerminates ==
    /\ [](pc[Main] \in {"loop", "write"}
            => counter[Main] - 1 <= Cardinality(DOMAIN fs) + 1)
    /\ (pc[Main] = "loop") ~> (pc[Main] = "write")

\* the loop has ended after one increment in a directory without entries:
\* the candidate was "..", a path that exists in every directory
C20_Witness ==
    /\ Resolved(Main)
    /\ url[Main] = Url_dots
    /\ DOMAIN fs = {}
    /\ counter[Main] = 2
    /\ EntryOf(filepath[Main]) = <<".", ".", "_", "1">>

====
